---- MODULE Spec2Model ----
(***************************************************************************)
(* Model of the journal knowledge graph: the similarity engine and graph   *)
(* builder of src/lib/graphUtils.js, the explanation cache kept by the     *)
(* KnowledgeGraph component, and the part of the Home page that hosts it.  *)
(***************************************************************************)
EXTENDS Integers, Sequences, FiniteSets, Bags, TLC

(***************************************************************************)
(* JavaScript strings.  An entry id is a sequence of UTF-16 code units.    *)
(***************************************************************************)
DASH == 45
CH_a == 97
CH_b == 98
CH_c == 99

Range(seq) == { seq[i] : i \in DOMAIN seq }

RECURSIVE StrLess(_, _)
\* s < t on JavaScript strings: code unit by code unit, a proper prefix first.
StrLess(s, t) ==
  IF t = <<>> THEN FALSE
  ELSE IF s = <<>> THEN TRUE
  ELSE IF Head(s) < Head(t) THEN TRUE
  ELSE IF Head(s) > Head(t) THEN FALSE
  ELSE StrLess(Tail(s), Tail(t))

(***************************************************************************)
(* Natural numbers of arbitrary size: little-endian sequences of limbs in  *)
(* base 2^15, without leading zero limbs (zero is the empty sequence).     *)
(* They carry the 53-bit significands of JavaScript numbers.               *)
(***************************************************************************)
LimbBase == 2^15

RECURSIVE BNStrip(_)
BNStrip(a) ==
  IF a = <<>> THEN <<>>
  ELSE IF a[Len(a)] = 0 THEN BNStrip(SubSeq(a, 1, Len(a) - 1))
  ELSE a

RECURSIVE BNFromInt(_)
BNFromInt(n) ==
  IF n = 0 THEN <<>> ELSE <<n % LimbBase>> \o BNFromInt(n \div LimbBase)

RECURSIVE BNAddC(_, _, _)
BNAddC(a, b, c) ==
  IF a = <<>> /\ b = <<>> THEN (IF c = 0 THEN <<>> ELSE <<c>>)
  ELSE LET x == IF a = <<>> THEN 0 ELSE Head(a)
           y == IF b = <<>> THEN 0 ELSE Head(b)
           s == x + y + c
       IN <<s % LimbBase>> \o
          BNAddC(IF a = <<>> THEN <<>> ELSE Tail(a),
                 IF b = <<>> THEN <<>> ELSE Tail(b),
                 s \div LimbBase)

BNAdd(a, b) == BNAddC(a, b, 0)

RECURSIVE BNSubB(_, _, _)
\* a - b - borrow, for a >= b + borrow
BNSubB(a, b, w) ==
  IF a = <<>> THEN <<>>
  ELSE LET y == IF b = <<>> THEN 0 ELSE Head(b)
           d == Head(a) - y - w
       IN <<IF d < 0 THEN d + LimbBase ELSE d>> \o
          BNSubB(Tail(a), IF b = <<>> THEN <<>> ELSE Tail(b),
                 IF d < 0 THEN 1 ELSE 0)

BNSub(a, b) == BNStrip(BNSubB(a, b, 0))

RECURSIVE BNMulLimb(_, _, _)
BNMulLimb(a, d, c) ==
  IF a = <<>> THEN (IF c = 0 THEN <<>> ELSE <<c>>)
  ELSE LET p == Head(a) * d + c
       IN <<p % LimbBase>> \o BNMulLimb(Tail(a), d, p \div LimbBase)

RECURSIVE BNMul(_, _)
BNMul(a, b) ==
  IF a = <<>> \/ b = <<>> THEN <<>>
  ELSE LET rest == BNMul(a, Tail(b))
       IN BNStrip(BNAdd(BNMulLimb(a, Head(b), 0),
                        IF rest = <<>> THEN <<>> ELSE <<0>> \o rest))

RECURSIVE BNLessFrom(_, _, _)
BNLessFrom(a, b, i) ==
  IF i = 0 THEN FALSE
  ELSE IF a[i] < b[i] THEN TRUE
  ELSE IF a[i] > b[i] THEN FALSE
  ELSE BNLessFrom(a, b, i - 1)

BNLess(a, b) ==
  IF Len(a) # Len(b) THEN Len(a) < Len(b) ELSE BNLessFrom(a, b, Len(a))

BNLeq(a, b) == ~BNLess(b, a)

RECURSIVE IntBitLen(_)
IntBitLen(n) == IF n = 0 THEN 0 ELSE 1 + IntBitLen(n \div 2)

BNBitLen(a) == IF a = <<>> THEN 0 ELSE 15 * (Len(a) - 1) + IntBitLen(a[Len(a)])

RECURSIVE IntPow2(_)
IntPow2(k) == IF k = 0 THEN 1 ELSE 2 * IntPow2(k - 1)

BNPow2(k) == [i \in 1..(k \div 15) |-> 0] \o <<IntPow2(k % 15)>>

\* floor(a / 2^k)
BNShr(a, k) ==
  LET d    == k \div 15
      bits == k % 15
      lowp == IntPow2(bits)
      higp == IntPow2(15 - bits)
      Limb(i) == IF i <= Len(a) THEN a[i] ELSE 0
  IN IF Len(a) <= d THEN <<>>
     ELSE BNStrip([i \in 1..(Len(a) - d) |->
                    (Limb(i + d) \div lowp) + (Limb(i + d + 1) % lowp) * higp])

BNIsOdd(a) == a # <<>> /\ a[1] % 2 = 1

RECURSIVE BNDivBits(_, _, _, _, _)
\* the largest q' >= q, differing from q only in bits lo..i, with q' * b <= a
BNDivBits(a, b, q, i, lo) ==
  IF i < lo THEN q
  ELSE LET t == BNAdd(q, BNPow2(i))
       IN IF BNLeq(BNMul(t, b), a)
          THEN BNDivBits(a, b, t, i - 1, lo)
          ELSE BNDivBits(a, b, q, i - 1, lo)

RECURSIVE BNDivFrom(_, _, _, _)
\* the quotient bits are settled sixteen at a time, from the top
BNDivFrom(a, b, q, i) ==
  IF i < 0 THEN q
  ELSE LET q1 == BNDivBits(a, b, q, i, IF i < 15 THEN 0 ELSE i - 15)
       IN IF q1 = <<>>
          THEN BNDivFrom(a, b, <<>>, i - 16)
          ELSE BNDivFrom(a, b, q1, i - 16)

\* floor(a / b), b > 0
BNDiv(a, b) ==
  IF BNLess(a, b) THEN <<>> ELSE BNDivFrom(a, b, <<>>, BNBitLen(a) - BNBitLen(b))

RECURSIVE BNSqrtBits(_, _, _, _)
BNSqrtBits(a, r, i, lo) ==
  IF i < lo THEN r
  ELSE LET t == BNAdd(r, BNPow2(i))
       IN IF BNLeq(BNMul(t, t), a)
          THEN BNSqrtBits(a, t, i - 1, lo)
          ELSE BNSqrtBits(a, r, i - 1, lo)

RECURSIVE BNSqrtFrom(_, _, _)
BNSqrtFrom(a, r, i) ==
  IF i < 0 THEN r
  ELSE LET r1 == BNSqrtBits(a, r, i, IF i < 15 THEN 0 ELSE i - 15)
       IN IF r1 = <<>>
          THEN BNSqrtFrom(a, <<>>, i - 16)
          ELSE BNSqrtFrom(a, r1, i - 16)

\* floor(sqrt(a))
BNSqrt(a) == BNSqrtFrom(a, <<>>, BNBitLen(a) \div 2)

(***************************************************************************)
(* JavaScript numbers: IEEE-754 binary64, round to nearest, ties to even.  *)
(* A number is zero ([s |-> 0]) or [s, m, e] with sign s, 53-bit           *)
(* significand m (2^52 <= m < 2^53) and value s * m * 2^e.  The vectors    *)
(* of the model keep every intermediate value far from the subnormal and   *)
(* overflow ranges, so those, NaN and the infinities are not represented.  *)
(***************************************************************************)
FZero == [s |-> 0]

\* the number nearest to n * 2^e, n > 0 of any size
FRound(sign, n, e) ==
  LET len == BNBitLen(n)
  IN IF len <= 53
     THEN [s |-> sign, m |-> BNMul(n, BNPow2(53 - len)), e |-> e - (53 - len)]
     ELSE LET sh   == len - 53
              q    == BNShr(n, sh)
              r    == BNSub(n, BNMul(q, BNPow2(sh)))
              half == BNPow2(sh - 1)
              up   == BNLess(half, r) \/ (r = half /\ BNIsOdd(q))
              q1   == IF up THEN BNAdd(q, <<1>>) ELSE q
          IN IF BNBitLen(q1) = 54
             THEN [s |-> sign, m |-> BNPow2(52), e |-> e + sh + 1]
             ELSE [s |-> sign, m |-> q1, e |-> e + sh]

\* an integer as a number (exact below 2^31)
FFromInt(k) ==
  IF k = 0 THEN FZero
  ELSE FRound(IF k < 0 THEN -1 ELSE 1, BNFromInt(IF k < 0 THEN -k ELSE k), 0)

\* x * y
FMul(x, y) ==
  IF x.s = 0 \/ y.s = 0 THEN FZero
  ELSE FRound(x.s * y.s, BNMul(x.m, y.m), x.e + y.e)

\* x / y, y nonzero: 56 quotient bits, then a sticky bit for the remainder
FDiv(x, y) ==
  IF x.s = 0 THEN FZero
  ELSE LET n   == BNMul(x.m, BNPow2(56))
           q   == BNDiv(n, y.m)
           rem == BNSub(n, BNMul(q, y.m))
           q2  == BNAdd(BNMul(q, <<2>>), IF rem = <<>> THEN <<>> ELSE <<1>>)
       IN FRound(x.s * y.s, q2, x.e - y.e - 57)

\* Math.sqrt(x), x >= 0
FSqrt(x) ==
  IF x.s = 0 THEN FZero
  ELSE LET k   == IF (x.e % 2) = 0 THEN 56 ELSE 57
           n   == BNMul(x.m, BNPow2(k))
           r   == BNSqrt(n)
           r2  == BNAdd(BNMul(r, <<2>>), IF BNMul(r, r) = n THEN <<>> ELSE <<1>>)
       IN FRound(1, r2, ((x.e - k) \div 2) - 1)

\* x < y
FLess(x, y) ==
  LET MagLess(a, b) == IF a.e + 0 # b.e THEN a.e < b.e ELSE BNLess(a.m, b.m)
  IN IF x.s # y.s THEN x.s < y.s
     ELSE IF x.s = 0 THEN FALSE
     ELSE IF x.s = 1 THEN MagLess(x, y)
     ELSE MagLess(y, x)

\* x >= y
FGeq(x, y) == ~FLess(x, y)

\* the number written p/q as a decimal literal (0.01 is FLit(1, 100))
FLit(p, q) == FDiv(FFromInt(p), FFromInt(q))

(***************************************************************************)
(* Journal entries.  An embedding is undefined, something that is not an   *)
(* array, or an array of numbers; the arrays of the model hold integers,   *)
(* so the sums of products below are exact.                                *)
(***************************************************************************)
Undefined == [tag |-> "undefined"]
NotArray  == [tag |-> "object"]
Arr(v)    == [tag |-> "array", v |-> v, nulls |-> {}]

\* an array whose elements at the indices in nulls are null, not numbers
ArrWithNulls(v, nulls) == [tag |-> "array", v |-> v, nulls |-> nulls]

\* the ids are UUIDs (supabase-schema.sql): equal lengths, '-' at a fixed place
ID_aa == <<CH_a, DASH, CH_a>>
ID_ab == <<CH_a, DASH, CH_b>>
ID_ba == <<CH_b, DASH, CH_a>>
ID_bb == <<CH_b, DASH, CH_b>>
ID_ac == <<CH_a, DASH, CH_c>>
ID_bc == <<CH_b, DASH, CH_c>>
ID_ca == <<CH_c, DASH, CH_a>>
ID_cb == <<CH_c, DASH, CH_b>>
ID_cc == <<CH_c, DASH, CH_c>>

\* the rows the journal_entries table may hold
E_ba == [id |-> ID_ba, title |-> "t1", content |-> "c1", created_at |-> 4, embedding |-> Arr(<<0, 1>>)]
E_aa == [id |-> ID_aa, title |-> "t2", content |-> "c2", created_at |-> 3, embedding |-> Arr(<<1, 1>>)]
E_bb == [id |-> ID_bb, title |-> "t3", content |-> "c3", created_at |-> 2, embedding |-> Undefined]
E_ab == [id |-> ID_ab, title |-> "t4", content |-> "c4", created_at |-> 1, embedding |-> Arr(<<1, 0>>)]

Pool == {E_ba, E_aa, E_bb, E_ab}

\* the pool in the order of the query of loadEntries (created_at descending)
PoolByDate == <<E_ba, E_aa, E_bb, E_ab>>

PoolVectors == { e.embedding : e \in { x \in Pool : x.embedding.tag = "array" } }

\* Entries given to buildKnowledgeGraph directly: a zero vector, vectors of
\* another length, equal and opposite vectors, an array holding a null, a
\* value that is no array, and no embedding at all.
N_east  == [id |-> ID_aa, title |-> "n1", content |-> "d1", created_at |-> 1, embedding |-> Arr(<<1, 0>>)]
N_steep == [id |-> ID_cb, title |-> "n2", content |-> "d2", created_at |-> 2, embedding |-> Arr(<<1, 4>>)]
N_zero  == [id |-> ID_ac, title |-> "n3", content |-> "d3", created_at |-> 3, embedding |-> Arr(<<0, 0>>)]
N_diag  == [id |-> ID_cc, title |-> "n4", content |-> "d4", created_at |-> 4, embedding |-> Arr(<<1, 1, 1>>)]
N_twin  == [id |-> ID_ab, title |-> "n5", content |-> "d5", created_at |-> 5, embedding |-> Arr(<<1, 1, 1>>)]
N_anti  == [id |-> ID_bc, title |-> "n6", content |-> "d6", created_at |-> 6, embedding |-> Arr(<<-1, -1, -1>>)]
N_hole  == [id |-> ID_ba, title |-> "n7", content |-> "d7", created_at |-> 7, embedding |-> ArrWithNulls(<<1, 0>>, {2})]
N_text  == [id |-> ID_ca, title |-> "n8", content |-> "d8", created_at |-> 8, embedding |-> NotArray]
N_none  == [id |-> ID_bb, title |-> "n9", content |-> "d9", created_at |-> 9, embedding |-> Undefined]

Shelf == {N_east, N_steep, N_zero, N_diag, N_twin, N_anti, N_hole, N_text, N_none}

ShelfVectors == { e.embedding : e \in { x \in Shelf : x.embedding.tag = "array" } }

(***************************************************************************)
(* graphUtils.js                                                           *)
(***************************************************************************)
\* the operand vec[i] of a multiplication: ToNumber, which takes null to 0
ToNumber(vec, i) == IF i \in vec.nulls THEN 0 ELSE vec.v[i]

RECURSIVE DotFrom(_, _, _)
\* sum of a[k] * b[k] for k = i .. a.length: the loop of cosineSimilarity
DotFrom(a, b, i) ==
  IF i > Len(a.v) THEN 0
  ELSE ToNumber(a, i) * ToNumber(b, i) + DotFrom(a, b, i + 1)

\* cosineSimilarity dividing by the norm of vec1 twice
cosineSimilarityOneNorm(vec1, vec2) ==
  IF vec1.tag = "undefined" \/ vec2.tag = "undefined" THEN FZero
  ELSE IF Len(vec1.v) # Len(vec2.v) THEN FZero
  ELSE LET dotProduct  == FFromInt(DotFrom(vec1, vec2, 1))
           norm1       == FFromInt(DotFrom(vec1, vec1, 1))
           denominator == FMul(FSqrt(norm1), FSqrt(norm1))
       IN IF denominator = FZero THEN FZero
          ELSE FDiv(dotProduct, denominator)

\* cosineSimilarity without the comparison of the lengths: the shorter
\* vector decides how many components are read
cosineSimilarityPrefix(vec1, vec2) ==
  IF vec1.tag = "undefined" \/ vec2.tag = "undefined" THEN FZero
  ELSE LET n  == IF Len(vec1.v) < Len(vec2.v) THEN Len(vec1.v) ELSE Len(vec2.v)
           a  == [vec1 EXCEPT !.v = SubSeq(vec1.v, 1, n)]
           b  == [vec2 EXCEPT !.v = SubSeq(vec2.v, 1, n)]
           dotProduct  == FFromInt(DotFrom(a, b, 1))
           norm1       == FFromInt(DotFrom(a, a, 1))
           norm2       == FFromInt(DotFrom(b, b, 1))
           denominator == FMul(FSqrt(norm1), FSqrt(norm2))
       IN IF denominator = FZero THEN FZero
          ELSE FDiv(dotProduct, denominator)

\* cosineSimilarity answering 1 for a zero denominator
cosineSimilarityDegenerateAsOne(vec1, vec2) ==
  IF vec1.tag = "undefined" \/ vec2.tag = "undefined" THEN FZero
  ELSE IF Len(vec1.v) # Len(vec2.v) THEN FZero
  ELSE LET dotProduct  == FFromInt(DotFrom(vec1, vec2, 1))
           norm1       == FFromInt(DotFrom(vec1, vec1, 1))
           norm2       == FFromInt(DotFrom(vec2, vec2, 1))
           denominator == FMul(FSqrt(norm1), FSqrt(norm2))
       IN IF denominator = FZero THEN FFromInt(1)
          ELSE FDiv(dotProduct, denominator)

\* cosineSimilarity dividing by norm1 * norm2 without the square roots
cosineSimilarityNoSqrt(vec1, vec2) ==
  IF vec1.tag = "undefined" \/ vec2.tag = "undefined" THEN FZero
  ELSE IF Len(vec1.v) # Len(vec2.v) THEN FZero
  ELSE LET dotProduct  == FFromInt(DotFrom(vec1, vec2, 1))
           norm1       == FFromInt(DotFrom(vec1, vec1, 1))
           norm2       == FFromInt(DotFrom(vec2, vec2, 1))
           denominator == FMul(norm1, norm2)
       IN IF denominator = FZero THEN FZero
          ELSE FDiv(dotProduct, denominator)

cosineSimilarity(vec1, vec2) ==
  IF vec1.tag = "undefined" \/ vec2.tag = "undefined" THEN FZero
  ELSE IF Len(vec1.v) # Len(vec2.v) THEN FZero
  ELSE LET dotProduct  == FFromInt(DotFrom(vec1, vec2, 1))
           norm1       == FFromInt(DotFrom(vec1, vec1, 1))
           norm2       == FFromInt(DotFrom(vec2, vec2, 1))
           denominator == FMul(FSqrt(norm1), FSqrt(norm2))
       IN IF denominator = FZero THEN FZero
          ELSE FDiv(dotProduct, denominator)

\* The values of cosineSimilarity on the embeddings of the pool.  They are
\* computed once, in the initial state, and never change: the function is pure.
VARIABLE cosineMemo

CosineTable ==
  [p \in PoolVectors \X PoolVectors |-> cosineSimilarity(p[1], p[2])]

ShelfTable ==
  [p \in ShelfVectors \X ShelfVectors |-> cosineSimilarity(p[1], p[2])]

\* the comparator of the sort in buildKnowledgeGraph
CompareById(a, b) ==
  IF StrLess(a.id, b.id) THEN -1 ELSE IF StrLess(b.id, a.id) THEN 1 ELSE 0

RECURSIVE InsertSorted(_, _)
\* x put into the sorted sequence s behind every element that is not greater
InsertSorted(s, x) ==
  IF s = <<>> THEN <<x>>
  ELSE IF CompareById(x, Head(s)) < 0 THEN <<x>> \o s
  ELSE <<Head(s)>> \o InsertSorted(Tail(s), x)

\* the entries left in the order given
SortByIdOmitted(s) == s

RECURSIVE SortById(_)
\* Array.prototype.sort with CompareById: a stable sort
SortById(s) ==
  IF s = <<>> THEN <<>>
  ELSE InsertSorted(SortById(SubSeq(s, 1, Len(s) - 1)), s[Len(s)])

HasEmbedding(entry) == entry.embedding.tag = "array"

RECURSIVE ScanPairsStrict(_, _, _, _)
\* the loops with the test similarity > minSimilarity
ScanPairsStrict(nodes, i, j, minSimilarity) ==
  IF i > Len(nodes) THEN <<>>
  ELSE IF j > Len(nodes) THEN ScanPairsStrict(nodes, i + 1, i + 2, minSimilarity)
  ELSE LET similarity == cosineMemo[<<nodes[i].embedding, nodes[j].embedding>>]
       IN (IF FLess(minSimilarity, similarity)
           THEN << [source |-> nodes[i].id, target |-> nodes[j].id,
                    similarity |-> similarity, value |-> similarity] >>
           ELSE <<>>) \o ScanPairsStrict(nodes, i, j + 1, minSimilarity)

RECURSIVE ScanPairsWithSelf(_, _, _, _)
\* the loops with the inner one starting at j = i from the second row on
ScanPairsWithSelf(nodes, i, j, minSimilarity) ==
  IF i > Len(nodes) THEN <<>>
  ELSE IF j > Len(nodes) THEN ScanPairsWithSelf(nodes, i + 1, i + 1, minSimilarity)
  ELSE LET similarity == cosineMemo[<<nodes[i].embedding, nodes[j].embedding>>]
       IN (IF FGeq(similarity, minSimilarity)
           THEN << [source |-> nodes[i].id, target |-> nodes[j].id,
                    similarity |-> similarity, value |-> similarity] >>
           ELSE <<>>) \o ScanPairsWithSelf(nodes, i, j + 1, minSimilarity)

RECURSIVE ScanPairsPrepending(_, _, _, _)
\* the loops putting each new link in front of the list
ScanPairsPrepending(nodes, i, j, minSimilarity) ==
  IF i > Len(nodes) THEN <<>>
  ELSE IF j > Len(nodes) THEN ScanPairsPrepending(nodes, i + 1, i + 2, minSimilarity)
  ELSE LET similarity == cosineMemo[<<nodes[i].embedding, nodes[j].embedding>>]
       IN ScanPairsPrepending(nodes, i, j + 1, minSimilarity) \o
          (IF FGeq(similarity, minSimilarity)
           THEN << [source |-> nodes[i].id, target |-> nodes[j].id,
                    similarity |-> similarity, value |-> similarity] >>
           ELSE <<>>)

RECURSIVE ScanPairsBreakingOnMismatch(_, _, _, _)
\* the loops leaving the inner one at a pair of embeddings of different lengths
ScanPairsBreakingOnMismatch(nodes, i, j, minSimilarity) ==
  IF i > Len(nodes) THEN <<>>
  ELSE IF j > Len(nodes)
       THEN ScanPairsBreakingOnMismatch(nodes, i + 1, i + 2, minSimilarity)
  ELSE IF Len(nodes[i].embedding.v) # Len(nodes[j].embedding.v)
       THEN ScanPairsBreakingOnMismatch(nodes, i + 1, i + 2, minSimilarity)
  ELSE LET similarity == cosineMemo[<<nodes[i].embedding, nodes[j].embedding>>]
       IN (IF FGeq(similarity, minSimilarity)
           THEN << [source |-> nodes[i].id, target |-> nodes[j].id,
                    similarity |-> similarity, value |-> similarity] >>
           ELSE <<>>) \o ScanPairsBreakingOnMismatch(nodes, i, j + 1, minSimilarity)

RECURSIVE ScanPairs(_, _, _, _)
\* the two nested loops over i < j, from the pair (i, j) on
ScanPairs(nodes, i, j, minSimilarity) ==
  IF i > Len(nodes) THEN <<>>
  ELSE IF j > Len(nodes) THEN ScanPairs(nodes, i + 1, i + 2, minSimilarity)
  ELSE LET similarity == cosineMemo[<<nodes[i].embedding, nodes[j].embedding>>]
       IN (IF FGeq(similarity, minSimilarity)
           THEN << [source |-> nodes[i].id, target |-> nodes[j].id,
                    similarity |-> similarity, value |-> similarity] >>
           ELSE <<>>) \o ScanPairs(nodes, i, j + 1, minSimilarity)

buildKnowledgeGraph(entries, minSimilarity) ==
  LET sortedEntries == SortById(SelectSeq(entries, HasEmbedding))
      nodes == [k \in 1..Len(sortedEntries) |->
                  [id        |-> sortedEntries[k].id,
                   title     |-> sortedEntries[k].title,
                   content   |-> sortedEntries[k].content,
                   createdAt |-> sortedEntries[k].created_at,
                   embedding |-> sortedEntries[k].embedding,
                   index     |-> k - 1]]
  IN [nodes |-> nodes, links |-> ScanPairs(nodes, 1, 2, minSimilarity)]

(***************************************************************************)
(* The Home page (app/page.tsx) and the KnowledgeGraph component           *)
(* (components/KnowledgeGraph.tsx) it renders in graph view.               *)
(***************************************************************************)
VARIABLES
  entries,             \* Home: useState entries
  loading,             \* Home: useState loading
  viewMode,            \* Home: useState viewMode
  loadsInFlight,       \* Home: calls of loadEntries waiting for the database
  graphData,           \* Home: useMemo graphData
  hoveredLink,         \* KnowledgeGraph: useState hoveredLink
  clickedLink,         \* KnowledgeGraph: useState clickedLink
  explanation,         \* KnowledgeGraph: useState explanation
  loadingExplanation,  \* KnowledgeGraph: useState loadingExplanation
  explanationCache,    \* KnowledgeGraph: useRef explanationCache (a Map)
  fetches,             \* calls of fetchSimilarityExplanation waiting for the API
  unhandledRejection,  \* a promise of fetchSimilarityExplanation was rejected
  inEntries,           \* argument entries of a call of buildKnowledgeGraph
  inMinSimilarity,     \* argument minSimilarity of that call
  outGraph,            \* what the call returned
  inSource,            \* link.source of a link given to fetchSimilarityExplanation
  inTarget,            \* link.target of that link
  outKey,              \* the cacheKey computed for it
  inVec1,              \* argument vec1 of a call of cosineSimilarity
  inVec2,              \* argument vec2 of that call
  outSim               \* what the call returned

VARIABLES
  embeddingPipeline,   \* embeddings.js: let embeddingPipeline
  pipelineInits,       \* calls of pipeline('feature-extraction', ...) made so far
  calls                \* the calls of generateEmbedding, each at its await

embedVars == <<embeddingPipeline, pipelineInits, calls>>
homeVars  == <<entries, loading, viewMode, loadsInFlight, graphData>>
graphVars == <<hoveredLink, clickedLink, explanation, loadingExplanation,
               explanationCache, fetches, unhandledRejection>>
pureVars  == <<inEntries, inMinSimilarity, outGraph, inSource, inTarget, outKey,
               inVec1, inVec2, outSim>>
vars      == <<homeVars, graphVars, pureVars, cosineMemo, embedVars>>

\* bounds of the model
MaxFetches == 2
MaxLoads   == 1
MaxEntries == 3
MaxCalls   == 3

Null     == "<null>"
NoLink   == [source |-> <<>>, target |-> <<>>, similarity |-> FZero, value |-> FZero]
NoGraph  == [nodes |-> <<>>, links |-> <<>>, none |-> TRUE]
NoKey    == <<>>
NoPipeline == 0
NoVec    == [tag |-> "none"]
NoSim    == [none |-> TRUE]
EmptyMap == <<>>

\* JavaScript truthiness of a string or null
Truthy(str) == str # Null /\ str # ""

\* minSimilarity of the page: the number 0.01 (0x1.47ae147ae147bp-7)
PageMinSimilarity == [s |-> 1, m |-> <<5243, 3932, 27525, 163>>, e |-> -59]

\* the default minSimilarity of buildKnowledgeGraph: 0.4 (0x1.999999999999ap-2)
DefaultMinSimilarity == [s |-> 1, m |-> <<6554, 13107, 26214, 204>>, e |-> -54]

\* further thresholds: -1, 0 and 1.1 (0x1.199999999999ap+0)
FMinusOne  == [s |-> -1, m |-> <<0, 0, 0, 128>>, e |-> -52]
FOnePoint1 == [s |-> 1, m |-> <<6554, 13107, 26214, 140>>, e |-> -52]

\* 1 and the next number above it, 1.0000000000000002 (0x1.0000000000001p+0)
FOne        == [s |-> 1, m |-> <<0, 0, 0, 128>>, e |-> -52]
FOnePlusUlp == [s |-> 1, m |-> <<1, 0, 0, 128>>, e |-> -52]

\* -1.1
FMinusOnePoint1 == [s |-> -1, m |-> <<6554, 13107, 26214, 140>>, e |-> -52]

Thresholds == {FMinusOne, FZero, PageMinSimilarity, DefaultMinSimilarity, FOnePoint1}

Corpus(rows) == SelectSeq(PoolByDate, LAMBDA e : e \in rows)

\* what the query of loadEntries may return
Corpora == { Corpus(Pool), Corpus(Pool \ {E_ab}), Corpus({E_bb}), Corpus({}) }

\* what POST /api/explain-similarity may answer: an explanation (possibly
\* empty), a failure status with or without an error text, or no answer
Responses ==
  { [status |-> "ok", text |-> "alpha"], [status |-> "ok", text |-> "beta"],
    [status |-> "ok", text |-> ""],
    [status |-> "notok", text |-> ""],
    [status |-> "rejected", text |-> "Failed to fetch"] }

\* useMemo graphData of Home
GraphDataOf(ents, mode) ==
  IF mode = "graph" /\ Len(ents) > 0
  THEN buildKnowledgeGraph(ents, PageMinSimilarity)
  ELSE [nodes |-> <<>>, links |-> <<>>]

\* Home renders <KnowledgeGraph> (page.tsx: loading ? ... : entries.length === 0 ? ...)
Mounted(ents, load, mode) == ~load /\ Len(ents) > 0 /\ mode = "graph"

IsMounted == Mounted(entries, loading, viewMode)

\* KnowledgeGraph renders the ForceGraph2D and its container
GraphShown == IsMounted /\ Len(graphData.nodes) > 0

getEntryId(sourceOrTarget) == sourceOrTarget

\* linkColor, linkWidth, linkCanvasObject: link.strength || 'medium'
LinkStrength(link) ==
  IF "strength" \in DOMAIN link THEN link.strength ELSE "medium"

\* linkCanvasObject: link.isDotted || false
LinkIsDotted(link) ==
  IF "isDotted" \in DOMAIN link THEN link.isDotted ELSE FALSE

\* the key without the sort of the two ids
CacheKeyUnsorted(sourceId, targetId) == sourceId \o <<DASH>> \o targetId

\* the key made of the smaller id alone
CacheKeyFirstOnly(sourceId, targetId) ==
  LET sorted == IF StrLess(targetId, sourceId)
                THEN <<targetId, sourceId>> ELSE <<sourceId, targetId>>
  IN sorted[1] \o <<DASH>> \o sorted[1]

CacheKey(sourceId, targetId) ==
  LET sorted == IF StrLess(targetId, sourceId)
                THEN <<targetId, sourceId>> ELSE <<sourceId, targetId>>
  IN sorted[1] \o <<DASH>> \o sorted[2]

MapHas(map, key) == key \in DOMAIN map
MapSet(map, key, val) == [k \in (DOMAIN map) \cup {key} |-> IF k = key THEN val ELSE map[k]]

\* the in-flight calls once their component instance is gone
Orphaned(bag) ==
  LET gone == { [f EXCEPT !.live = FALSE] : f \in BagToSet(bag) }
  IN [g \in gone |-> CopiesIn(g, bag) + CopiesIn([g EXCEPT !.live = TRUE], bag)]

\* The state of the component after Home renders with new state: leaving
\* the graph branch unmounts the instance, entering it mounts a fresh one.
Rerender(ents, load, mode) ==
  IF IsMounted /\ ~Mounted(ents, load, mode)
  THEN /\ hoveredLink' = NoLink
       /\ clickedLink' = NoLink
       /\ explanation' = Null
       /\ loadingExplanation' = FALSE
       /\ explanationCache' = EmptyMap
       /\ fetches' = Orphaned(fetches)
       /\ UNCHANGED unhandledRejection
  ELSE UNCHANGED graphVars

\* the calls of generateEmbedding the model follows
Callers == 1..MaxCalls

\* embeddings.js as loaded: no pipeline yet, no call of generateEmbedding
EmbedIdle ==
  /\ embeddingPipeline = NoPipeline
  /\ pipelineInits = 0
  /\ calls = [c \in Callers |-> [pc |-> "idle", instance |-> NoPipeline,
                                  extractor |-> NoPipeline]]

Init ==
  /\ EmbedIdle
  /\ cosineMemo = CosineTable
  /\ entries = <<>>
  /\ loading = TRUE
  /\ viewMode = "list"
  /\ loadsInFlight = 1
  /\ graphData = GraphDataOf(<<>>, "list")
  /\ hoveredLink = NoLink
  /\ clickedLink = NoLink
  /\ explanation = Null
  /\ loadingExplanation = FALSE
  /\ explanationCache = EmptyMap
  /\ fetches = EmptyBag
  /\ unhandledRejection = FALSE
  /\ inEntries = <<>>
  /\ inMinSimilarity = FZero
  /\ outGraph = NoGraph
  /\ inSource = <<>>
  /\ inTarget = <<>>
  /\ outKey = NoKey
  /\ inVec1 = NoVec
  /\ inVec2 = NoVec
  /\ outSim = NoSim

\* the List / Graph buttons
SetViewMode(mode) ==
  /\ mode # viewMode
  /\ viewMode' = mode
  /\ graphData' = GraphDataOf(entries, mode)
  /\ Rerender(entries, loading, mode)
  /\ UNCHANGED <<entries, loading, loadsInFlight, pureVars, cosineMemo, embedVars>>

\* loadEntries up to its await (after a save or a delete)
LoadEntriesStart ==
  /\ loadsInFlight < MaxLoads
  /\ loadsInFlight' = loadsInFlight + 1
  /\ loading' = TRUE
  /\ Rerender(entries, TRUE, viewMode)
  /\ UNCHANGED <<entries, viewMode, graphData, pureVars, cosineMemo, embedVars>>

\* loadEntries after its await: the query failed
LoadEntriesError ==
  /\ loadsInFlight > 0
  /\ loadsInFlight' = loadsInFlight - 1
  /\ loading' = FALSE
  /\ Rerender(entries, FALSE, viewMode)
  /\ UNCHANGED <<entries, viewMode, graphData, pureVars, cosineMemo, embedVars>>

\* loadEntries after its await: the query returned data
LoadEntriesData(data) ==
  /\ loadsInFlight > 0
  /\ loadsInFlight' = loadsInFlight - 1
  /\ entries' = data
  /\ loading' = FALSE
  /\ graphData' = GraphDataOf(data, viewMode)
  /\ Rerender(data, FALSE, viewMode)
  /\ UNCHANGED <<viewMode, pureVars, cosineMemo, embedVars>>

\* fetchSimilarityExplanation waiting for any fetch that is already in flight
StartExplanationOneAtATime(link) ==
  LET sourceId == getEntryId(link.source)
      targetId == getEntryId(link.target)
      cacheKey == CacheKey(sourceId, targetId)
  IN IF MapHas(explanationCache, cacheKey) /\ Truthy(explanationCache[cacheKey])
     THEN /\ explanation' = explanationCache[cacheKey]
          /\ UNCHANGED <<loadingExplanation, fetches>>
     ELSE /\ loadingExplanation' = TRUE
          /\ explanation' = Null
          /\ fetches' = IF fetches = EmptyBag
                        THEN SetToBag({[sourceId |-> sourceId, targetId |-> targetId,
                                        cacheKey |-> cacheKey, live |-> TRUE]})
                        ELSE fetches

\* fetchSimilarityExplanation up to its first await
StartExplanation(link) ==
  LET sourceId == getEntryId(link.source)
      targetId == getEntryId(link.target)
      cacheKey == CacheKey(sourceId, targetId)
  IN IF MapHas(explanationCache, cacheKey) /\ Truthy(explanationCache[cacheKey])
     THEN /\ explanation' = explanationCache[cacheKey]
          /\ UNCHANGED <<loadingExplanation, fetches>>
     ELSE /\ loadingExplanation' = TRUE
          /\ explanation' = Null
          /\ fetches' = fetches (+) SetToBag({[sourceId |-> sourceId,
                                               targetId |-> targetId,
                                               cacheKey |-> cacheKey,
                                               live     |-> TRUE]})

WouldFetch(link) ==
  LET cacheKey == CacheKey(getEntryId(link.source), getEntryId(link.target))
  IN ~(MapHas(explanationCache, cacheKey) /\ Truthy(explanationCache[cacheKey]))

\* handleLinkClick
LinkClick(link) ==
  /\ GraphShown
  /\ WouldFetch(link) => BagCardinality(fetches) < MaxFetches
  /\ clickedLink' = link
  /\ StartExplanation(link)
  /\ UNCHANGED <<homeVars, hoveredLink, explanationCache, unhandledRejection, pureVars, cosineMemo, embedVars>>

\* onLinkHover
LinkHover(link) ==
  /\ GraphShown
  /\ hoveredLink' = link
  /\ UNCHANGED <<homeVars, clickedLink, explanation, loadingExplanation,
                 explanationCache, fetches, unhandledRejection, pureVars, cosineMemo, embedVars>>

\* onMouseLeave of the container
MouseLeave ==
  /\ GraphShown
  /\ hoveredLink' = NoLink
  /\ explanation' = IF clickedLink = NoLink THEN Null ELSE explanation
  /\ UNCHANGED <<homeVars, clickedLink, loadingExplanation,
                 explanationCache, fetches, unhandledRejection, pureVars, cosineMemo, embedVars>>

\* onBackgroundClick that also drops the pending fetches
BackgroundClickCancels ==
  /\ GraphShown
  /\ hoveredLink' = NoLink
  /\ clickedLink' = NoLink
  /\ explanation' = Null
  /\ fetches' = EmptyBag
  /\ UNCHANGED <<homeVars, loadingExplanation,
                 explanationCache, unhandledRejection, pureVars, cosineMemo, embedVars>>

\* onBackgroundClick
BackgroundClick ==
  /\ GraphShown
  /\ hoveredLink' = NoLink
  /\ clickedLink' = NoLink
  /\ explanation' = Null
  /\ UNCHANGED <<homeVars, loadingExplanation,
                 explanationCache, fetches, unhandledRejection, pureVars, cosineMemo, embedVars>>

\* result.explanation without the fallback text
ExplanationTextRaw(response) == response.text

\* result.explanation || 'Unable to generate explanation.'
ExplanationText(response) ==
  IF response.text # "" THEN response.text ELSE "Unable to generate explanation."

\* the message of the error thrown in the try block
ErrorMessage(response) ==
  IF response.status = "rejected" THEN response.text
  ELSE IF response.text # "" THEN response.text ELSE "HTTP 500"

\* the text set by the catch block
ErrorText(response) ==
  "Error: " \o (IF ErrorMessage(response) # "" THEN ErrorMessage(response)
                ELSE "Failed to load explanation")

\* fetchSimilarityExplanation without its catch block
FetchSettleUncaught(f, response) ==
  /\ BagIn(f, fetches)
  /\ fetches' = fetches (-) SetToBag({f})
  /\ IF ~f.live
     THEN UNCHANGED <<explanation, loadingExplanation, explanationCache, unhandledRejection>>
     ELSE /\ IF response.status = "ok"
             THEN /\ explanationCache' =
                       MapSet(explanationCache, f.cacheKey, ExplanationText(response))
                  /\ explanation' = ExplanationText(response)
                  /\ UNCHANGED unhandledRejection
             ELSE /\ unhandledRejection' = TRUE
                  /\ UNCHANGED <<explanation, explanationCache>>
          /\ loadingExplanation' = FALSE
  /\ UNCHANGED <<homeVars, hoveredLink, clickedLink, pureVars, cosineMemo, embedVars>>

\* fetchSimilarityExplanation from its first await on: try, catch, finally
FetchSettle(f, response) ==
  /\ BagIn(f, fetches)
  /\ fetches' = fetches (-) SetToBag({f})
  /\ IF ~f.live
     THEN \* the instance is unmounted: its setters do nothing, its Map is unreachable
          UNCHANGED <<explanation, loadingExplanation, explanationCache>>
     ELSE /\ IF response.status = "ok"
             THEN /\ explanationCache' =
                       MapSet(explanationCache, f.cacheKey, ExplanationText(response))
                  /\ explanation' = ExplanationText(response)
             ELSE /\ explanation' = ErrorText(response)
                  /\ UNCHANGED explanationCache
          /\ loadingExplanation' = FALSE
  /\ UNCHANGED <<homeVars, hoveredLink, clickedLink, unhandledRejection, pureVars, cosineMemo, embedVars>>

Next ==
  \/ \E mode \in {"list", "graph"} : SetViewMode(mode)
  \/ LoadEntriesStart
  \/ LoadEntriesError
  \/ \E data \in Corpora : LoadEntriesData(data)
  \/ \E link \in Range(graphData.links) : LinkClick(link)
  \/ \E link \in Range(graphData.links) \cup {NoLink} : LinkHover(link)
  \/ MouseLeave
  \/ BackgroundClick
  \/ \E f \in BagToSet(fetches) : \E response \in Responses : FetchSettle(f, response)

Spec == Init /\ [][Next]_vars

(***************************************************************************)
(* Calls of the pure functions on arguments drawn from bounded sets:       *)
(* buildKnowledgeGraph on every ordering of every subset of the pool, and  *)
(* the cache key on every ordered pair of ids.                             *)
(***************************************************************************)
Orderings(rows) ==
  { p \in [1..Cardinality(rows) -> rows] :
      \A i, j \in 1..Cardinality(rows) : i # j => p[i] # p[j] }

InputEntries == UNION { Orderings(rows) : rows \in SUBSET Pool }

PoolIds == { e.id : e \in Pool }

InitPure ==
  /\ EmbedIdle
  /\ cosineMemo = CosineTable
  /\ entries = <<>>
  /\ loading = TRUE
  /\ viewMode = "list"
  /\ loadsInFlight = 1
  /\ graphData = GraphDataOf(<<>>, "list")
  /\ hoveredLink = NoLink
  /\ clickedLink = NoLink
  /\ explanation = Null
  /\ loadingExplanation = FALSE
  /\ explanationCache = EmptyMap
  /\ fetches = EmptyBag
  /\ unhandledRejection = FALSE
  /\ outGraph = NoGraph
  /\ outKey = NoKey
  /\ inVec1 = NoVec
  /\ inVec2 = NoVec
  /\ outSim = NoSim
  /\ \/ /\ inEntries \in InputEntries
        /\ inMinSimilarity \in Thresholds
        /\ inSource = <<>>
        /\ inTarget = <<>>
     \/ /\ inEntries = <<>>
        /\ inMinSimilarity = FZero
        /\ inSource \in PoolIds
        /\ inTarget \in PoolIds

\* a call that sorts the array it was given in place before it filters
BuildSortingInPlace ==
  /\ inSource = <<>>
  /\ inVec1 = NoVec
  /\ outGraph = NoGraph
  /\ inEntries' = SortById(inEntries)
  /\ outGraph' = buildKnowledgeGraph(inEntries, inMinSimilarity)
  /\ UNCHANGED <<homeVars, graphVars, cosineMemo, embedVars,
                 inMinSimilarity, inSource, inTarget, outKey,
                 inVec1, inVec2, outSim>>

\* a call buildKnowledgeGraph(entries, minSimilarity)
Build ==
  /\ inSource = <<>>
  /\ inVec1 = NoVec
  /\ outGraph = NoGraph
  /\ outGraph' = buildKnowledgeGraph(inEntries, inMinSimilarity)
  /\ UNCHANGED <<homeVars, graphVars, cosineMemo, embedVars,
                 inEntries, inMinSimilarity, inSource, inTarget, outKey,
                 inVec1, inVec2, outSim>>

\* a second call, on the same entries in another order
Rebuild(reordered) ==
  /\ outGraph # NoGraph
  /\ reordered \in Orderings(Range(inEntries))
  /\ reordered # inEntries
  /\ inEntries' = reordered
  /\ outGraph' = buildKnowledgeGraph(reordered, inMinSimilarity)
  /\ UNCHANGED <<homeVars, graphVars, cosineMemo, embedVars,
                 inMinSimilarity, inSource, inTarget, outKey,
                 inVec1, inVec2, outSim>>

\* the cache key of fetchSimilarityExplanation for the link (source, target)
MakeKey ==
  /\ inSource # <<>>
  /\ outKey = NoKey
  /\ outKey' = CacheKey(getEntryId(inSource), getEntryId(inTarget))
  /\ UNCHANGED <<homeVars, graphVars, cosineMemo, embedVars,
                 inEntries, inMinSimilarity, outGraph, inSource, inTarget,
                 inVec1, inVec2, outSim>>

\* the key again, for the same link with its ends exchanged
SwapEnds ==
  /\ outKey # NoKey
  /\ inSource' = inTarget
  /\ inTarget' = inSource
  /\ outKey' = CacheKey(getEntryId(inTarget), getEntryId(inSource))
  /\ UNCHANGED <<homeVars, graphVars, cosineMemo, embedVars,
                 inEntries, inMinSimilarity, outGraph,
                 inVec1, inVec2, outSim>>

NextPure ==
  \/ Build
  \/ \E reordered \in Orderings(Range(inEntries)) : Rebuild(reordered)
  \/ MakeKey
  \/ SwapEnds

SpecPure == InitPure /\ [][NextPure]_vars

(***************************************************************************)
(* Calls of buildKnowledgeGraph on sequences of distinct entries of the    *)
(* shelf, and of cosineSimilarity on its vectors and on a missing one.     *)
(***************************************************************************)
ShelfInputs ==
  UNION { Orderings(rows) : rows \in { r \in SUBSET Shelf : Cardinality(r) <= MaxEntries } }

GraphThresholds ==
  {FMinusOnePoint1, FMinusOne, FZero, PageMinSimilarity, FOnePlusUlp, FOnePoint1}

CompareInputs == ShelfVectors \cup {Undefined, Arr(<<1, 1>>)}

InitGraph ==
  /\ EmbedIdle
  /\ cosineMemo = ShelfTable
  /\ entries = <<>>
  /\ loading = TRUE
  /\ viewMode = "list"
  /\ loadsInFlight = 1
  /\ graphData = GraphDataOf(<<>>, "list")
  /\ hoveredLink = NoLink
  /\ clickedLink = NoLink
  /\ explanation = Null
  /\ loadingExplanation = FALSE
  /\ explanationCache = EmptyMap
  /\ fetches = EmptyBag
  /\ unhandledRejection = FALSE
  /\ outGraph = NoGraph
  /\ inSource = <<>>
  /\ inTarget = <<>>
  /\ outKey = NoKey
  /\ outSim = NoSim
  /\ \/ /\ inEntries \in ShelfInputs
        /\ inMinSimilarity \in GraphThresholds
        /\ inVec1 = NoVec
        /\ inVec2 = NoVec
     \/ /\ inEntries = <<>>
        /\ inMinSimilarity = FZero
        /\ inVec1 \in CompareInputs
        /\ inVec2 \in CompareInputs

\* a call cosineSimilarity(vec1, vec2)
Compare ==
  /\ inVec1 # NoVec
  /\ outSim = NoSim
  /\ outSim' = cosineSimilarity(inVec1, inVec2)
  /\ UNCHANGED <<homeVars, graphVars, cosineMemo, embedVars, inEntries, inMinSimilarity,
                 outGraph, inSource, inTarget, outKey, inVec1, inVec2>>

\* the call again, with the two arguments exchanged
CompareSwapped ==
  /\ outSim # NoSim
  /\ inVec1' = inVec2
  /\ inVec2' = inVec1
  /\ outSim' = cosineSimilarity(inVec2, inVec1)
  /\ UNCHANGED <<homeVars, graphVars, cosineMemo, embedVars, inEntries, inMinSimilarity,
                 outGraph, inSource, inTarget, outKey>>

NextGraph ==
  \/ Build
  \/ Compare
  \/ CompareSwapped

SpecGraph == InitGraph /\ [][NextGraph]_vars

(***************************************************************************)
(* Calls of generateEmbedding in one server process, interleaved at their  *)
(* awaits.                                                                 *)
(***************************************************************************)
\* generateEmbedding up to its first await: getEmbeddingPipeline tests the
\* pipeline and either starts pipeline(...) or returns the one that is there
generateEmbedding(c) ==
  /\ calls[c].pc = "idle"
  /\ IF embeddingPipeline = NoPipeline
     THEN /\ pipelineInits' = pipelineInits + 1
          /\ calls' = [calls EXCEPT ![c] = [pc |-> "loading",
                                            instance |-> pipelineInits + 1,
                                            extractor |-> NoPipeline]]
     ELSE /\ calls' = [calls EXCEPT ![c] = [pc |-> "extracting",
                                            instance |-> NoPipeline,
                                            extractor |-> embeddingPipeline]]
          /\ UNCHANGED pipelineInits
  /\ UNCHANGED <<embeddingPipeline, homeVars, graphVars, pureVars, cosineMemo>>

\* getEmbeddingPipeline after its await: the pipeline is stored and returned
PipelineLoaded(c) ==
  /\ calls[c].pc = "loading"
  /\ embeddingPipeline' = calls[c].instance
  /\ calls' = [calls EXCEPT ![c].pc = "extracting",
                            ![c].extractor = calls[c].instance]
  /\ UNCHANGED <<pipelineInits, homeVars, graphVars, pureVars, cosineMemo>>

\* getEmbeddingPipeline after its await: pipeline(...) was rejected, and the
\* catch block of generateEmbedding throws
PipelineFailed(c) ==
  /\ calls[c].pc = "loading"
  /\ calls' = [calls EXCEPT ![c].pc = "failed", ![c].instance = NoPipeline]
  /\ UNCHANGED <<embeddingPipeline, pipelineInits, homeVars, graphVars, pureVars, cosineMemo>>

\* generateEmbedding after extractor(text, ...): it returns the embedding or throws
Extracted(c, outcome) ==
  /\ calls[c].pc = "extracting"
  /\ calls' = [calls EXCEPT ![c].pc = outcome]
  /\ UNCHANGED <<embeddingPipeline, pipelineInits, homeVars, graphVars, pureVars, cosineMemo>>

NextEmbed ==
  \/ \E c \in Callers : generateEmbedding(c)
  \/ \E c \in Callers : PipelineLoaded(c)
  \/ \E c \in Callers : PipelineFailed(c)
  \/ \E c \in Callers : \E outcome \in {"done", "failed"} : Extracted(c, outcome)

SpecEmbed == Init /\ [][NextEmbed]_vars

(***************************************************************************)
(* Properties of the explanation cache                                     *)
(***************************************************************************)
KeyOf(link) == CacheKey(getEntryId(link.source), getEntryId(link.target))

LiveFetches == { f \in BagToSet(fetches) : f.live }

FailedResponses == { r \in Responses : r.status # "ok" }
OkResponses     == { r \in Responses : r.status = "ok" }

\* the calls of the mounted component that wait for the API with this key
InFlightFor(key) ==
  LET same == { f \in LiveFetches : f.cacheKey = key }
  IN IF same = {} THEN 0 ELSE CopiesIn(CHOOSE f \in same : TRUE, fetches)

\* C1: for every canonical pair at most one explanation fetch is in flight,
\* however often and in whichever order of ids the pair is requested.
AtMostOneInFlightPerPair ==
  \A f \in LiveFetches : InFlightFor(f.cacheKey) <= 1

\* C2: when a fetch fails, a fallback message is stored in the cache under
\* the key of its pair (so that a later request is served from the cache).
FailureIsCached ==
  [][\A f \in LiveFetches : \A r \in FailedResponses :
       FetchSettle(f, r) => MapHas(explanationCache', f.cacheKey)]_vars

\* C3: a click on a link whose key has a stored value delivers that value,
\* starts no fetch and leaves the cache as it is.
CacheHitServed ==
  [][\A link \in Range(graphData.links) :
       (LinkClick(link) /\ MapHas(explanationCache, KeyOf(link)))
         => /\ explanation' = explanationCache[KeyOf(link)]
            /\ fetches' = fetches
            /\ explanationCache' = explanationCache]_vars

\* a state only a cache hit produces: the stored text of the clicked link is
\* shown while the fetch of another link still holds the loading flag
CacheHitWitness ==
  /\ clickedLink # NoLink
  /\ loadingExplanation
  /\ MapHas(explanationCache, KeyOf(clickedLink))
  /\ explanation = explanationCache[KeyOf(clickedLink)]
  /\ \A f \in LiveFetches : f.cacheKey # KeyOf(clickedLink)

\* C4: a value stored under a key is never replaced by another value.
CacheEntryImmutable ==
  [][\A k \in DOMAIN explanationCache :
       MapHas(explanationCache', k) => explanationCache'[k] = explanationCache[k]]_vars

\* C5: a key that has a stored value keeps one for the rest of the session.
CacheEntryPersists ==
  [][\A k \in DOMAIN explanationCache : MapHas(explanationCache', k)]_vars

\* C6: a click on a link or on the background leaves the cache and every
\* pending fetch as they are, and a fetch of the mounted component that
\* succeeds, abandoned or not, stores its text under the key of its pair.
AbandonKeepsFetchAndCache ==
  [][/\ \A link \in Range(graphData.links) :
          LinkClick(link)
            => /\ explanationCache' = explanationCache
               /\ \A f \in BagToSet(fetches) : CopiesIn(f, fetches') >= CopiesIn(f, fetches)
     /\ BackgroundClick
          => /\ explanationCache' = explanationCache
             /\ fetches' = fetches
     /\ \A f \in LiveFetches : \A r \in OkResponses :
          FetchSettle(f, r)
            => /\ MapHas(explanationCache', f.cacheKey)
               /\ explanationCache'[f.cacheKey] = ExplanationText(r)
               /\ \A k \in DOMAIN explanationCache :
                    k # f.cacheKey => /\ MapHas(explanationCache', k)
                                      /\ explanationCache'[k] = explanationCache[k]]_vars

\* a fetch abandoned by a background click has completed and filled the cache:
\* no link is clicked, yet the text it stored is in the explanation state
AbandonedFetchWitness ==
  /\ clickedLink = NoLink
  /\ explanation # Null
  /\ \E k \in DOMAIN explanationCache : explanationCache[k] = explanation

\* C7: the cache key of a pair does not depend on the order of its two ids.
KeyOrderIndependent ==
  outKey # NoKey => outKey = CacheKey(getEntryId(inTarget), getEntryId(inSource))

\* a key computed for a link whose source id is the greater one
KeyReversedWitness ==
  /\ outKey # NoKey
  /\ StrLess(inTarget, inSource)

\* C8: a failing fetch is caught: no promise is rejected, the caller is shown
\* a message of failure, the loading flag is false again, and the entries
\* and the graph data are unchanged.
FailureHandled ==
  [][\A f \in LiveFetches : \A r \in FailedResponses :
       FetchSettle(f, r)
         => /\ ~unhandledRejection'
            /\ explanation' = ErrorText(r)
            /\ Truthy(explanation')
            /\ explanation' \notin { ExplanationText(ok) : ok \in OkResponses }
            /\ loadingExplanation' = FALSE
            /\ graphData' = graphData
            /\ entries' = entries]_vars

\* a failure message is shown for the clicked link, the loading flag is off
FailureShownWitness ==
  /\ clickedLink # NoLink
  /\ ~loadingExplanation
  /\ explanation \in { ErrorText(r) : r \in FailedResponses }
  /\ ~unhandledRejection

\* C9: a link whose pair is not cached gets its own fetch at once, whatever
\* else is in flight; a fetch can settle whenever it is in flight, and when
\* it succeeds it fills the slot of its own pair only and leaves the other
\* fetches in flight.
DifferentPairsIndependent ==
  [][/\ \A f \in BagToSet(fetches) : \A r \in Responses : ENABLED FetchSettle(f, r)
     /\ \A link \in Range(graphData.links) :
          (LinkClick(link) /\ ~MapHas(explanationCache, KeyOf(link)))
            => /\ CopiesIn([sourceId |-> link.source, targetId |-> link.target,
                            cacheKey |-> KeyOf(link), live |-> TRUE], fetches')
                    = InFlightFor(KeyOf(link)) + 1
               /\ \A f \in BagToSet(fetches) : CopiesIn(f, fetches') >= CopiesIn(f, fetches)
     /\ \A f \in LiveFetches : \A r \in OkResponses :
          FetchSettle(f, r)
            => /\ explanationCache' = MapSet(explanationCache, f.cacheKey, ExplanationText(r))
               /\ \A g \in BagToSet(fetches) :
                    g # f => CopiesIn(g, fetches') = CopiesIn(g, fetches)]_vars

\* fetches for two different pairs are in flight together
TwoPairsInFlightWitness ==
  \E f, g \in LiveFetches : f.cacheKey # g.cacheKey

(***************************************************************************)
(* Properties of the graph builder                                         *)
(***************************************************************************)
\* C10: with unique ids, a build returns the same nodes at the same indices
\* and the same links in the same order for every ordering of its entries.
BuildOrderIndependent ==
  outGraph # NoGraph =>
    \A reordered \in Orderings(Range(inEntries)) :
      buildKnowledgeGraph(reordered, inMinSimilarity) = outGraph

\* a graph with two links built from entries that were not in id order
UnsortedBuildWitness ==
  /\ outGraph # NoGraph
  /\ Len(outGraph.links) >= 2
  /\ \E i, j \in 1..Len(inEntries) : i < j /\ StrLess(inEntries[j].id, inEntries[i].id)

\* the similarity the build computed for the nodes at positions i and j
SimilarityAt(nodes, i, j) == cosineMemo[<<nodes[i].embedding, nodes[j].embedding>>]

\* the positions of the links from the node at i to the node at j
LinksBetween(graph, i, j) ==
  { k \in 1..Len(graph.links) :
      /\ graph.links[k].source = graph.nodes[i].id
      /\ graph.links[k].target = graph.nodes[j].id }

\* C11: for every pair of nodes i < j the build emits a link exactly when
\* their similarity is >= minSimilarity, the link carries that similarity,
\* and no other link is emitted.
LinkIffQualifies ==
  outGraph # NoGraph =>
    LET n == Len(outGraph.nodes)
    IN /\ \A i, j \in 1..n :
            i < j =>
              /\ (LinksBetween(outGraph, i, j) # {})
                   <=> FGeq(SimilarityAt(outGraph.nodes, i, j), inMinSimilarity)
              /\ \A k \in LinksBetween(outGraph, i, j) :
                   /\ outGraph.links[k].similarity = SimilarityAt(outGraph.nodes, i, j)
                   /\ outGraph.links[k].value = SimilarityAt(outGraph.nodes, i, j)
       /\ \A k \in 1..Len(outGraph.links) :
            \E i, j \in 1..n : i < j /\ k \in LinksBetween(outGraph, i, j)

\* a build that left one pair out and linked a pair whose similarity is
\* exactly the threshold
QualifyingAndNotWitness ==
  /\ outGraph # NoGraph
  /\ \E i, j \in 1..Len(outGraph.nodes) : i < j /\ LinksBetween(outGraph, i, j) = {}
  /\ \E k \in 1..Len(outGraph.links) : outGraph.links[k].similarity = inMinSimilarity

\* an embedding that is a sequence of numbers
NumericSequence(embedding) == embedding.tag = "array" /\ embedding.nulls = {}

\* C12: the nodes are exactly the entries with a valid embedding (a sequence
\* of numbers), in ascending order of id, node k with index k - 1 and the
\* id, title, content and timestamp of its entry; no id occurs twice.
NodesAreValidEntriesSorted ==
  outGraph # NoGraph =>
    LET nodes == outGraph.nodes
        valid == { e \in Range(inEntries) : NumericSequence(e.embedding) }
    IN /\ Len(nodes) = Cardinality(valid)
       /\ \A e \in valid : \E k \in 1..Len(nodes) : nodes[k].id = e.id
       /\ \A k \in 1..Len(nodes) :
            /\ nodes[k].index = k - 1
            /\ \E e \in Range(inEntries) :
                 /\ nodes[k].id = e.id
                 /\ nodes[k].title = e.title
                 /\ nodes[k].content = e.content
                 /\ nodes[k].createdAt = e.created_at
       /\ \A k \in 1..(Len(nodes) - 1) : StrLess(nodes[k].id, nodes[k + 1].id)

\* C13: no link joins a node to itself, and no two links join the same two
\* nodes, in either direction.
NoSelfOrDuplicateLinks ==
  outGraph # NoGraph =>
    LET links == outGraph.links
    IN /\ \A k \in 1..Len(links) : links[k].source # links[k].target
       /\ \A k, l \in 1..Len(links) :
            k # l => {links[k].source, links[k].target} # {links[l].source, links[l].target}

\* a build of three nodes with every pair linked
ThreeLinksWitness ==
  /\ outGraph # NoGraph
  /\ Len(outGraph.nodes) = 3
  /\ Len(outGraph.links) = 3

(***************************************************************************)
(* Properties of the strength tiers                                        *)
(***************************************************************************)
\* the cut points of the example: highCut = 0.75, lowCut = 0.3
HighCut == [s |-> 1, m |-> <<0, 0, 0, 192>>, e |-> -53]
LowCut  == [s |-> 1, m |-> <<13107, 26214, 19660, 153>>, e |-> -54]

\* the tier of a similarity: strong from highCut on, medium from lowCut on
TierOf(similarity) ==
  IF FGeq(similarity, HighCut) THEN "strong"
  ELSE IF FGeq(similarity, LowCut) THEN "medium"
  ELSE "weak"

\* C14: every link of a build has the strength tier of its similarity:
\* strong when >= highCut, medium when >= lowCut and < highCut, else weak.
LinksCarryTier ==
  outGraph # NoGraph =>
    \A k \in 1..Len(outGraph.links) :
      LinkStrength(outGraph.links[k]) = TierOf(outGraph.links[k].similarity)

\* C15: a link is drawn dashed exactly when its strength tier is weak.
DashedIffWeak ==
  outGraph # NoGraph =>
    \A k \in 1..Len(outGraph.links) :
      LinkIsDotted(outGraph.links[k]) <=> (TierOf(outGraph.links[k].similarity) = "weak")

(***************************************************************************)
(* Properties of the filter and of the thresholds                          *)
(***************************************************************************)
\* C16: an entry whose embedding is absent or is not a sequence of numbers
\* is no node and no end of a link of the build.
InvalidEmbeddingExcluded ==
  outGraph # NoGraph =>
    \A e \in Range(inEntries) :
      ~NumericSequence(e.embedding) =>
        /\ \A k \in 1..Len(outGraph.nodes) : outGraph.nodes[k].id # e.id
        /\ \A k \in 1..Len(outGraph.links) :
             outGraph.links[k].source # e.id /\ outGraph.links[k].target # e.id

\* C17: a build with minSimilarity above 1 has no links, and its nodes are
\* those of a build of the same entries with any other threshold.
NoLinksAboveOne ==
  (outGraph # NoGraph /\ FLess(FOne, inMinSimilarity)) =>
    /\ outGraph.links = <<>>
    /\ outGraph.nodes = buildKnowledgeGraph(inEntries, FZero).nodes

\* C18: a build with minSimilarity at or below -1 links every pair of its
\* n nodes: it has n(n-1)/2 links.
FullyLinkedAtMinusOne ==
  (outGraph # NoGraph /\ FGeq(FMinusOne, inMinSimilarity)) =>
    LET n == Len(outGraph.nodes)
    IN /\ Len(outGraph.links) = (n * (n - 1)) \div 2
       /\ \A i, j \in 1..n : i < j => LinksBetween(outGraph, i, j) # {}

(***************************************************************************)
(* Properties of cosineSimilarity                                          *)
(***************************************************************************)
\* C19: cosineSimilarity(b, a) is the value of cosineSimilarity(a, b), for
\* vectors of equal and of different lengths, zero vectors and a missing one.
CosineSymmetric ==
  [][CompareSwapped => outSim' = outSim]_vars

\* two different vectors were compared and are not orthogonal
SymmetricPairWitness ==
  /\ outSim # NoSim
  /\ outSim # FZero
  /\ inVec1 # inVec2
  /\ outSim # FOne

\* C20: cosineSimilarity returns 0 when an argument is missing or the two
\* vectors have different lengths.
ZeroForMissingOrMismatch ==
  (/\ outSim # NoSim
   /\ \/ inVec1.tag = "undefined"
      \/ inVec2.tag = "undefined"
      \/ Len(inVec1.v) # Len(inVec2.v)) => outSim = FZero

\* a call on two vectors of different lengths whose common components are
\* not orthogonal, and a call with a missing argument, have returned
MismatchComparedWitness ==
  /\ outSim # NoSim
  /\ inVec1.tag = "array" /\ inVec2.tag = "array"
  /\ Len(inVec1.v) < Len(inVec2.v)
  /\ DotFrom(inVec1, inVec2, 1) # 0

\* a vector whose components are all zero
IsZeroVector(vec) == vec.tag = "array" /\ DotFrom(vec, vec, 1) = 0

SelfCompared ==
  /\ outSim # NoSim
  /\ inVec1 = inVec2
  /\ inVec1.tag = "array"
  /\ ~IsZeroVector(inVec1)

\* C22 as stated: cosineSimilarity(a, a) equals 1 for every non-zero a.
SelfSimilarityIsOne ==
  SelfCompared => outSim = FOne

\* 1 - 2^-50 and 1 + 2^-50
FOneMinusTol == [s |-> 1, m |-> <<32760, 32767, 32767, 255>>, e |-> -53]
FOnePlusTol  == [s |-> 1, m |-> <<4, 0, 0, 128>>, e |-> -52]

\* C22 amended: cosineSimilarity(a, a) is within 2^-50 of 1 for every
\* non-zero a.
SelfSimilarityNearOne ==
  SelfCompared => (FGeq(outSim, FOneMinusTol) /\ FGeq(FOnePlusTol, outSim))

\* a vector compared with itself scored next to 1, below it
SelfSimilarityOffOneWitness ==
  /\ SelfCompared
  /\ FLess(outSim, FOne)
  /\ FGeq(outSim, FOneMinusTol)
  /\ FGeq(FOnePlusTol, outSim)

\* -1 <= x <= 1
InUnitRange(x) == FGeq(x, FMinusOne) /\ FGeq(FOne, x)

\* C23: every value cosineSimilarity returns for numeric vectors, and the
\* similarity of every link, lies in [-1, 1].
SimilarityInRange ==
  /\ (outSim # NoSim /\ inVec1.tag = "array" /\ inVec2.tag = "array"
        /\ inVec1.nulls = {} /\ inVec2.nulls = {}) => InUnitRange(outSim)
  /\ outGraph # NoGraph =>
       \A k \in 1..Len(outGraph.links) : InUnitRange(outGraph.links[k].similarity)

(***************************************************************************)
(* Further properties of the graph builder                                 *)
(***************************************************************************)
\* C24: a build leaves the entries it was given as they are, and the
\* result of every build, a first or a later one, is the function of its
\* own arguments.
BuildIsPure ==
  [][/\ Build => /\ inEntries' = inEntries
                 /\ outGraph' = buildKnowledgeGraph(inEntries, inMinSimilarity)
     /\ \A reordered \in Orderings(Range(inEntries)) :
          Rebuild(reordered)
            => outGraph' = buildKnowledgeGraph(reordered, inMinSimilarity)]_vars

\* a build has returned fewer nodes than it was given entries, and the
\* entries are still all there and still not in the order of their ids
InputKeptWitness ==
  /\ outGraph # NoGraph
  /\ Len(inEntries) >= 3
  /\ Len(outGraph.nodes) < Len(inEntries)
  /\ StrLess(inEntries[2].id, inEntries[1].id)

\* the position of the node with this id
NodeIndex(graph, id) == CHOOSE k \in 1..Len(graph.nodes) : graph.nodes[k].id = id

\* C25: every link has a source id below its target id, and the links are
\* in ascending order of (index of source node, index of target node).
LinksInScanOrder ==
  outGraph # NoGraph =>
    LET links == outGraph.links
        si(k) == NodeIndex(outGraph, links[k].source)
        ti(k) == NodeIndex(outGraph, links[k].target)
    IN /\ \A k \in 1..Len(links) : StrLess(links[k].source, links[k].target)
       /\ \A k, l \in 1..Len(links) :
            k < l => (si(k) < si(l) \/ (si(k) = si(l) /\ ti(k) < ti(l)))

\* a build of three nodes with two links that start at different nodes
TwoSourcesWitness ==
  /\ outGraph # NoGraph
  /\ Len(outGraph.nodes) = 3
  /\ Len(outGraph.links) = 2
  /\ outGraph.links[1].source # outGraph.links[2].source

\* the embeddings of the nodes at i and j have different lengths
LengthsDiffer(nodes, i, j) == Len(nodes[i].embedding.v) # Len(nodes[j].embedding.v)

\* the input entry a node was made from
EntryOf(node) == CHOOSE e \in Range(inEntries) : e.id = node.id

\* C26: a pair of nodes whose embeddings have different lengths is linked
\* exactly when minSimilarity <= 0, and then with similarity 0; every other
\* pair is linked exactly as in a build of its two entries alone.
MismatchScoresZero ==
  outGraph # NoGraph =>
    LET nodes == outGraph.nodes
    IN \A i, j \in 1..Len(nodes) :
         i < j =>
           IF LengthsDiffer(nodes, i, j)
           THEN /\ (LinksBetween(outGraph, i, j) # {}) <=> FGeq(FZero, inMinSimilarity)
                /\ \A k \in LinksBetween(outGraph, i, j) :
                     outGraph.links[k].similarity = FZero
           ELSE LET alone == buildKnowledgeGraph(<<EntryOf(nodes[i]), EntryOf(nodes[j])>>,
                                                 inMinSimilarity)
                IN /\ (LinksBetween(outGraph, i, j) # {}) <=> (alone.links # <<>>)
                   /\ \A k \in LinksBetween(outGraph, i, j) :
                        outGraph.links[k].similarity = alone.links[1].similarity

\* a build above the threshold 0 met a pair of different lengths, left it
\* out, and linked a later pair of the same row
MismatchAmongOthersWitness ==
  /\ outGraph # NoGraph
  /\ Len(outGraph.nodes) = 3
  /\ ~FGeq(FZero, inMinSimilarity)
  /\ LengthsDiffer(outGraph.nodes, 1, 2)
  /\ LinksBetween(outGraph, 1, 2) = {}
  /\ LinksBetween(outGraph, 1, 3) # {}

(***************************************************************************)
(* Further properties of the explanation state and of the cache key        *)
(***************************************************************************)
\* C27: the explanation state is null whenever no link is clicked, and the
\* response of a fetch for another pair than the clicked one leaves the
\* explanation as it is.
ExplanationOfClickedLink ==
  [][/\ explanation' # Null => clickedLink' # NoLink
     /\ \A f \in LiveFetches : \A r \in Responses :
          (FetchSettle(f, r) /\ clickedLink # NoLink /\ f.cacheKey # KeyOf(clickedLink))
            => explanation' = explanation]_vars

\* C28: the loading flag is true exactly while a fetch of the mounted
\* component is in flight.
LoadingTracksFetches == loadingExplanation <=> (LiveFetches # {})

\* the ids an entry may have: strings of one length with the separator in them
EntryIds == {ID_aa, ID_ab, ID_ba, ID_bb, ID_ac, ID_bc, ID_ca, ID_cb, ID_cc}

\* C29: only the pair a key was made from, in either order, has that key.
KeyInjective ==
  outKey # NoKey =>
    \A x, y \in EntryIds :
      CacheKey(getEntryId(x), getEntryId(y)) = outKey => {x, y} = {inSource, inTarget}

\* a key made of two different ids that hold the separator, and that share
\* their first character
KeyOfDashedIdsWitness ==
  /\ outKey # NoKey
  /\ inSource # inTarget
  /\ inSource[1] = inTarget[1]
  /\ DASH \in Range(inSource) \cap Range(inTarget)
  /\ Len(outKey) = Len(inSource) + 1 + Len(inTarget)

(***************************************************************************)
(* Properties of the embedding pipeline                                    *)
(***************************************************************************)
\* the pipelines whose construction is under way or has succeeded
Constructed == { calls[c].instance : c \in Callers } \ {NoPipeline}

\* C30: at most one pipeline is ever constructed, and all calls of
\* generateEmbedding that have an extractor have the same one.
PipelineInitialisedOnce ==
  /\ Cardinality(Constructed) <= 1
  /\ \A c1, c2 \in Callers :
       (calls[c1].extractor # NoPipeline /\ calls[c2].extractor # NoPipeline)
         => calls[c1].extractor = calls[c2].extractor

====
